---- MODULE Spec2Model ----
(***************************************************************************)
(* Payment-intent lifecycle of the Home page (src/src/pages/Home.tsx) and  *)
(* of the preview / payment modal that calls it (src/src/types/auth.ts).   *)
(*                                                                         *)
(* One behaviour is one mounted Home component.  React state is a set of   *)
(* variables; every await of the code (the create request, each status     *)
(* query, each downloadPdf) is a point where the handler is suspended and  *)
(* any other handler may run, so each continuation is an action of its own.*)
(***************************************************************************)
EXTENDS Integers, FiniteSets, Sequences, TLC

\* ------------------------------------------------------------------ bounds
\* startPayment calls followed in one mounted page
MaxFlows == 2
\* status queries / downloads of one startPayment call that may be
\* outstanding at the same moment
MaxInFlight == 2
\* the automatic-download counter saturates here
MaxDlCount == 2
\* the logical clock stops advancing here
MaxNow == 1
\* interval ticks of one call followed by the specification Spec
MaxTicks == 2
\* interval ticks of one call followed by the specification SpecTwo
MaxTicksTwo == 1
MaxHydrates == 2
MaxSigns == 1
MaxReqs == 3

\* ------------------------------------------------------- program constants
\* Home.tsx:313   const maxAttempts = 40
maxAttempts == 40

Flows == 1..MaxFlows

NoDep == "none"
\* the gateway issues a fresh identifier to each created intent
DepositOf(f) == IF f = 1 THEN "D1" ELSE IF f = 2 THEN "D2" ELSE "D3"

\* user-visible texts of payError (Home.tsx)
NoError == "null"
MsgAuthRequired == "auth.required"
MsgCardDisabled == "payment.cardDisabled"
MsgPhoneRequired == "payment.validation.phone"
MsgProcessing == "Payment is processing. Please approve the payment in your mobile money app..."
MsgNotApproved == "Payment was not approved. Please try again."
MsgGatewayReason == "failureReason.failureMessage"
MsgTimeout == "Payment confirmation timed out. Please check your mobile money app and try again."
MsgCreateDefault == "Payment creation failed"
MsgNoDepositId == "No deposit ID received from payment gateway"
MsgFetchThrew == "err.message"
MsgBodyMessage == "body.message"
MsgBodyError == "body.error"
MsgBodyDetails == "body.details.errorMessage"

VARIABLES
  user,        \* useAuthStore().user : "u" or "null"
  token,       \* useAuthStore().token : "tok" or "null"
  url,         \* window.location.search : [depositId, payment]
  step,        \* Home state step
  payment,     \* Home state payment : [plan, price, paid, method, reference, paidAt]
  paying,      \* Home state paying
  payError,    \* Home state payError
  paymentRef,  \* Home state paymentRef
  cb,          \* the checkPaymentFromUrl effect: "ready", "fetching", "done"
  flows,       \* one record per startPayment call (its closure and its awaits)
  previewOpen, \* Home state previewOpen (PreviewScreen open)
  paymentOpen, \* PreviewScreen state paymentOpen (PaymentTabsModal open)
  busy,        \* PaymentTabsModal state busy
  server,      \* server.mjs: the users file and the signup requests being
               \* handled: [file, reqs]
  store,       \* useAuthStore: [initialized, loading, error] and the requests
               \* of hydrate (me) and of login/signup that have not returned
  period,      \* Home state data: start and end of one experience entry,
               \* each a text [defined, chars] (undefined or a string)
  exportBlocked, \* Home hasDateErrors, handed down as the exportBlocked prop
  now,         \* Date.now(), as a logical clock
  lastDl       \* the most recent downloadPdf call : [by, paid, blocked],
               \* by "auto" (checkPaymentStatus) or "user" (a button)

homeVars == <<step, payment, paying, payError, paymentRef>>
uiVars == <<previewOpen, paymentOpen, busy>>
authVars == <<user, token>>
vars == <<user, token, url, step, payment, paying, payError, paymentRef, cb,
          flows, previewOpen, paymentOpen, busy, server, store, period,
          exportBlocked, now, lastDl>>

\* ------------------------------------------------------------ pure helpers
\* undefined as a price: what priceOf returns when no case of its switch matches
NoPrice == 0

\* Home.tsx:60  priceOf
priceOf(plan) ==
  CASE plan = "student" -> 1
    [] plan = "pro" -> 2
    [] plan = "advanced" -> 3
    [] OTHER -> NoPrice

Plans == {"student", "pro", "advanced"}

\* Home.tsx:113  useState<PaymentState>(...)
InitialPayment ==
  [plan |-> "student", price |-> 1, paid |-> FALSE, method |-> "none",
   reference |-> NoDep, paidAt |-> 0]

\* a startPayment call that has not been made yet
UnusedFlow ==
  [pc |-> "unused", depositId |-> NoDep, attempts |-> 0, active |-> FALSE,
   init |-> "none", tickFetch |-> 0, tickDl |-> 0, inModal |-> FALSE,
   queries |-> 0, sawFailed |-> FALSE, sawError |-> FALSE, autoDl |-> 0]

\* ---------------------------------------------------- gateway responses
CanonicalStatuses == {"pending", "processing", "completed", "failed"}
ProviderStatuses == {"absent", "ACCEPTED", "PROCESSING", "COMPLETED", "FAILED"}

\* GET /api/payments/status/{depositId}: the fetch throws, or answers non-2xx,
\* or answers 200 with {status, pawapayStatus?, failureReason?}
StatusResponses ==
  {[threw |-> TRUE, ok |-> FALSE, status |-> "pending", pawapayStatus |-> "absent", reason |-> FALSE],
   [threw |-> FALSE, ok |-> FALSE, status |-> "pending", pawapayStatus |-> "absent", reason |-> FALSE]}
  \cup [threw : {FALSE}, ok : {TRUE}, status : CanonicalStatuses,
        pawapayStatus : ProviderStatuses, reason : {FALSE}]
  \cup [threw : {FALSE}, ok : {TRUE}, status : {"failed"},
        pawapayStatus : ProviderStatuses, reason : {TRUE}]

\* POST /api/payments/create: the fetch throws, or answers non-2xx with a body
\* {message?, error?, details.errorMessage?}, or answers 200 with
\* {depositId?, status}
CreateResponses ==
  [threw : {TRUE}, ok : {FALSE}, message : {FALSE}, error : {FALSE},
   details : {FALSE}, depositId : {FALSE}, status : {"other"}]
  \cup [threw : {FALSE}, ok : {FALSE}, message : BOOLEAN, error : BOOLEAN,
        details : BOOLEAN, depositId : {FALSE}, status : {"other"}]
  \cup [threw : {FALSE}, ok : {TRUE}, message : {FALSE}, error : {FALSE},
        details : {FALSE}, depositId : BOOLEAN,
        status : {"pending", "processing", "other"}]

\* ------------------------------------------- checkPaymentStatus, its tests
\* Home.tsx:274   status === 'completed' || pawapayStatus === 'COMPLETED'
ReportsCompleted(r) == r.status = "completed" \/ r.pawapayStatus = "COMPLETED"

\* Home.tsx:293   status === 'failed' || pawapayStatus === 'FAILED'
ReportsFailed(r) == r.status = "failed" \/ r.pawapayStatus = "FAILED"

\* Home.tsx:298
ReportsProcessing(r) ==
  r.status = "processing" \/ r.pawapayStatus \in {"PROCESSING", "ACCEPTED"}

\* mutant of Outcome: a query that failed in transport counts as a failed report
Outcome_ErrorIsFailed(r) ==
  IF r.threw \/ ~r.ok THEN "failed"
  ELSE IF r.status = "completed" \/ r.pawapayStatus = "COMPLETED" THEN "completed"
  ELSE IF r.status = "failed" \/ r.pawapayStatus = "FAILED" THEN "failed"
  ELSE IF r.status = "processing" \/ r.pawapayStatus \in {"PROCESSING", "ACCEPTED"}
       THEN "processing"
  ELSE "none"

\* Home.tsx:260-309: which branch of checkPaymentStatus a response takes
Outcome(r) ==
  IF r.threw \/ ~r.ok THEN "none"
  ELSE IF ReportsCompleted(r) THEN "completed"
  ELSE IF ReportsFailed(r) THEN "failed"
  ELSE IF ReportsProcessing(r) THEN "processing"
  ELSE "none"

\* Home.tsx:294   statusData.failureReason?.failureMessage || '...not approved...'
failureMessage(r) == IF r.reason THEN MsgGatewayReason ELSE MsgNotApproved

\* mutant of CallbackAccepts: any answered query is taken as a confirmation of
\* the payment=success marker
CallbackAccepts_TrustsMarker(r) == ~r.threw /\ r.ok

\* Home.tsx:165-167   response.ok && statusData.status === 'completed'
CallbackAccepts(r) == ~r.threw /\ r.ok /\ r.status = "completed"

\* mutant of errorMessage: error is looked at before message
errorMessage_ErrorFirst(b) ==
  IF b.error THEN MsgBodyError
  ELSE IF b.message THEN MsgBodyMessage
  ELSE IF b.details THEN MsgBodyDetails
  ELSE MsgCreateDefault

\* Home.tsx:240   message || error || details?.errorMessage || default
errorMessage(b) ==
  IF b.message THEN MsgBodyMessage
  ELSE IF b.error THEN MsgBodyError
  ELSE IF b.details THEN MsgBodyDetails
  ELSE MsgCreateDefault

\* Home.tsx:318   result.completed || result.failed || attempts >= maxAttempts
PollStops(completed, failed, attempts) ==
  completed \/ failed \/ attempts >= maxAttempts

\* Home.tsx:321   attempts >= maxAttempts && !result.completed
ShowsTimeout(completed, attempts) == attempts >= maxAttempts /\ ~completed

Min(a, b) == IF a < b THEN a ELSE b

\* status queries and downloads of call f that have not returned yet
InFlight(f) ==
  (IF flows[f].init \in {"fetch", "download"} THEN 1 ELSE 0)
  + flows[f].tickFetch + flows[f].tickDl

\* the call has returned, its interval is cleared and nothing of it is pending:
\* no code can reach its closure any more
Finished(f) ==
  /\ flows[f].pc = "live"
  /\ ~flows[f].active
  /\ flows[f].init = "done"
  /\ flows[f].tickFetch = 0
  /\ flows[f].tickDl = 0

\* ------------------------------------------------------------- server
\* the signup requests the server handles, and the emails they carry
Reqs == 1..MaxReqs
Emails == {"a@x", "A@x", "b@x"}

\* String.prototype.toLowerCase on an email
LowerEmail(e) == IF e = "A@x" THEN "a@x" ELSE e

IdleReq == [pc |-> "idle", email |-> "a@x", users |-> <<>>]

\* server.mjs:24-31 ensureStore: the users file starts as []
InitialServer == [file |-> <<>>, reqs |-> [r \in Reqs |-> IdleReq]]

\* server.mjs:66   users.some((u) => u.email.toLowerCase() === email.toLowerCase())
Exists(users, email) ==
  \E i \in 1..Len(users) : LowerEmail(users[i].email) = LowerEmail(email)

\* --------------------------------------------------------- auth store
\* part_000:22-27: the store as created, before hydrate has run
\* the accounts of the server and the token a login hands out for each
Accounts == {"u", "v"}
TokenOf(a) == IF a = "u" THEN "tok" ELSE "tok2"
Tokens == {TokenOf(a) : a \in Accounts}
UserOf(t) == CHOOSE a \in Accounts : TokenOf(a) = t

InitialStore ==
  [initialized |-> FALSE, loading |-> FALSE, error |-> "null",
   hydrating |-> [t \in Tokens |-> 0], signing |-> 0]

\* the store once hydrate has finished: Home renders its page only then
\* (Home.tsx:450-455)
ReadyStore == [InitialStore EXCEPT !.initialized = TRUE]

\* ------------------------------------------------------- period texts
\* A text is a value of type string | undefined: [defined, chars], chars a
\* sequence of one-character strings.
Undefined == [defined |-> FALSE, chars |-> <<>>]
Str(cs) == [defined |-> TRUE, chars |-> cs]

\* (v || ''): undefined and '' both give ''
OrEmpty(v) == IF v.defined THEN v.chars ELSE <<>>

DigitChars == <<"0", "1", "2", "3", "4", "5", "6", "7", "8", "9">>
IsDigit(c) == \E i \in 1..10 : DigitChars[i] = c
DigitVal(c) == (CHOOSE i \in 1..10 : DigitChars[i] = c) - 1

\* String.prototype.trim
RECURSIVE TrimLeft(_)
TrimLeft(cs) ==
  IF cs # <<>> /\ Head(cs) = " " THEN TrimLeft(Tail(cs)) ELSE cs
RECURSIVE TrimRight(_)
TrimRight(cs) ==
  IF cs # <<>> /\ cs[Len(cs)] = " " THEN TrimRight(SubSeq(cs, 1, Len(cs) - 1))
  ELSE cs
Trim(cs) == TrimRight(TrimLeft(cs))

\* String.prototype.toLowerCase, on the letters the texts use
LowerChar(c) ==
  CASE c = "P" -> "p" [] c = "R" -> "r" [] c = "E" -> "e" [] c = "S" -> "s"
    [] c = "N" -> "n" [] c = "T" -> "t" [] OTHER -> c
ToLowerCase(cs) == [i \in 1..Len(cs) |-> LowerChar(cs[i])]

\* String.prototype.split('-'): the pieces between the hyphens
RECURSIVE Split(_)
Split(cs) ==
  IF \A i \in 1..Len(cs) : cs[i] # "-" THEN <<cs>>
  ELSE LET k == CHOOSE i \in 1..Len(cs) :
                  cs[i] = "-" /\ \A j \in 1..(i - 1) : cs[j] # "-"
       IN <<SubSeq(cs, 1, k - 1)>> \o Split(SubSeq(cs, k + 1, Len(cs)))

\* Number(s) for a text of decimal digits with white space around it
RECURSIVE DecimalValue(_)
DecimalValue(cs) ==
  IF cs = <<>> THEN 0
  ELSE 10 * DecimalValue(SubSeq(cs, 1, Len(cs) - 1)) + DigitVal(cs[Len(cs)])
NumberOf(cs) == DecimalValue(Trim(cs))

\* Home.tsx:80-86 isYearMonth: /^\d{4}-\d{2}$/ on the trimmed text, month 1..12
isYearMonth(v) ==
  LET s == Trim(OrEmpty(v)) IN
  /\ Len(s) = 7
  /\ \A i \in {1, 2, 3, 4, 6, 7} : IsDigit(s[i])
  /\ s[5] = "-"
  /\ LET m == NumberOf(Split(s)[2]) IN m >= 1 /\ m <= 12

\* Home.tsx:87-91 parseYearMonthToKey; NoKey stands for null
NoKey == 0 - 1
parseYearMonthToKey(v) ==
  IF ~isYearMonth(v) THEN NoKey
  ELSE LET parts == Split(v.chars)
       IN NumberOf(parts[1]) * 100 + NumberOf(parts[2])

\* Home.tsx:92-94 isPresentValue
isPresentValue(v) ==
  ToLowerCase(Trim(OrEmpty(v))) = <<"p", "r", "e", "s", "e", "n", "t">>

\* mutant of isDateOrderInvalid: equal months count as reversed
isDateOrderInvalid_OrEqual(start, end) ==
  IF isPresentValue(end) THEN FALSE
  ELSE IF parseYearMonthToKey(start) = NoKey \/ parseYearMonthToKey(end) = NoKey
  THEN FALSE
  ELSE parseYearMonthToKey(end) <= parseYearMonthToKey(start)

\* Home.tsx:95-101 isDateOrderInvalid
isDateOrderInvalid(start, end) ==
  IF isPresentValue(end) THEN FALSE
  ELSE IF parseYearMonthToKey(start) = NoKey \/ parseYearMonthToKey(end) = NoKey
  THEN FALSE
  ELSE parseYearMonthToKey(end) < parseYearMonthToKey(start)

\* the values the start and end fields of an entry are given
Texts ==
  {Undefined,
   Str(<<>>),
   Str(<<"p", "r", "e", "s", "e", "n", "t">>),
   Str(<<" ", "P", "r", "e", "s", "e", "n", "t", " ">>),
   Str(<<"P", "R", "E", "S", "E", "N", "T">>),
   Str(<<"2", "0", "2", "0", "-", "0", "5">>),
   Str(<<"2", "0", "2", "0", "-", "1", "2">>),
   Str(<<"2", "0", "1", "9", "-", "1", "2">>),
   Str(<<"2", "0", "2", "1", "-", "0", "1">>),
   Str(<<" ", "2", "0", "1", "9", "-", "1", "2", " ">>),
   Str(<<"2", "0", "2", "0", "-", "1", "3">>),
   Str(<<"2", "0", "2", "0", "-", "0", "0">>),
   Str(<<"2", "0", "2", "0", "-", "5">>),
   Str(<<"2", "0", "2", "0", "/", "0", "5">>),
   Str(<<"2", "0", "2", "0", "0", "-", "0", "5">>),
   Str(<<"2", "0", "1", "9">>),
   Str(<<"2", "0", "-", "1", "9", "-", "1">>)}

Periods == [start : Texts, end : Texts]

\* initialResume: no entry with dates yet
NoPeriod == [start |-> Undefined, end |-> Undefined]

\* Home.tsx:420-427 hasDateErrors, for the one entry
hasDateErrors(p) == isDateOrderInvalid(p.start, p.end)

\* ------------------------------------------------------------------- Init
\* The page has just mounted with a signed-in user (Home renders nothing
\* otherwise); the address may carry the parameters of a gateway redirect.
Urls ==
  {[depositId |-> NoDep, payment |-> "none"],
   [depositId |-> "D1", payment |-> "success"]}

Init ==
  /\ user = "u"
  /\ token = "tok"
  /\ url \in Urls
  /\ step = 1
  /\ payment = InitialPayment
  /\ paying = FALSE
  /\ payError = NoError
  /\ paymentRef = NoDep
  /\ cb = [pc |-> "ready", depositId |-> NoDep, bearer |-> "null"]
  /\ flows = [f \in Flows |-> UnusedFlow]
  /\ previewOpen = FALSE
  /\ paymentOpen = FALSE
  /\ busy = FALSE
  /\ store = ReadyStore
  /\ server = InitialServer
  /\ period = NoPeriod
  /\ exportBlocked = FALSE
  /\ now = 0
  /\ lastDl = [by |-> "none", paid |-> FALSE, blocked |-> FALSE]

\* ------------------------------------------------- redirect callback path
\* mutant of CheckPaymentFromUrl: the token is not tested before the query
CheckPaymentFromUrl_NoTokenTest ==
  /\ cb.pc = "ready"
  /\ cb' = IF url.depositId # NoDep /\ url.payment = "success"
           THEN [pc |-> "fetching", depositId |-> url.depositId, bearer |-> token]
           ELSE [pc |-> "done", depositId |-> NoDep, bearer |-> "null"]
  /\ UNCHANGED <<user, token, url, homeVars, flows, uiVars, store, period, server, exportBlocked, now, lastDl>>

\* Home.tsx:151-189: the effect runs checkPaymentFromUrl when a token is there;
\* the status query goes out only with depositId and payment=success
\* bearer: the token of the Authorization header of the query (Home.tsx:160-162)
CheckPaymentFromUrl ==
  /\ cb.pc = "ready"
  /\ cb' = IF token # "null" /\ url.depositId # NoDep /\ url.payment = "success"
           THEN [pc |-> "fetching", depositId |-> url.depositId, bearer |-> token]
           ELSE [pc |-> "done", depositId |-> NoDep, bearer |-> "null"]
  /\ UNCHANGED <<user, token, url, homeVars, flows, uiVars, store, period, server, exportBlocked, now, lastDl>>

\* mutant of CallbackResponse: a status query that fails is reported to the user
CallbackResponse_ShowsError(r) ==
  /\ cb.pc = "fetching"
  /\ cb' = [cb EXCEPT !.pc = IF r.threw \/ ~r.ok THEN "discarded" ELSE "done"]
  /\ IF CallbackAccepts(r)
     THEN /\ payment' = [payment EXCEPT !.paid = TRUE,
                                        !.reference = cb.depositId,
                                        !.paidAt = now]
          /\ paymentRef' = cb.depositId
          /\ payError' = NoError
          /\ url' = [depositId |-> NoDep, payment |-> "none"]
     ELSE /\ payError' = IF r.threw \/ ~r.ok THEN MsgFetchThrew ELSE payError
          /\ UNCHANGED <<payment, paymentRef, url>>
  /\ UNCHANGED <<user, token, step, paying, flows, uiVars, store, period, server, exportBlocked, now, lastDl>>

\* mutant of CallbackResponse: a completed callback downloads the document as
\* the poll path does
CallbackResponse_Downloads(r) ==
  /\ cb.pc = "fetching"
  /\ cb' = [cb EXCEPT !.pc = IF r.threw \/ ~r.ok THEN "discarded" ELSE "done"]
  /\ IF CallbackAccepts(r)
     THEN /\ payment' = [payment EXCEPT !.paid = TRUE,
                                        !.reference = cb.depositId,
                                        !.paidAt = now]
          /\ paymentRef' = cb.depositId
          /\ payError' = NoError
          /\ url' = [depositId |-> NoDep, payment |-> "none"]
          /\ lastDl' = [by |-> "auto", paid |-> TRUE, blocked |-> exportBlocked]
     ELSE UNCHANGED <<payment, paymentRef, payError, url, lastDl>>
  /\ UNCHANGED <<user, token, step, paying, flows, uiVars, store, period, server, exportBlocked, now>>

\* Home.tsx:165-182: the status query of the callback returns; "discarded" marks
\* a query that threw (Home.tsx:180-182) or was answered non-2xx (Home.tsx:165)
CallbackResponse(r) ==
  /\ cb.pc = "fetching"
  /\ cb' = [cb EXCEPT !.pc = IF r.threw \/ ~r.ok THEN "discarded" ELSE "done"]
  /\ IF CallbackAccepts(r)
     THEN /\ payment' = [payment EXCEPT !.paid = TRUE,
                                        !.reference = cb.depositId,
                                        !.paidAt = now]
          /\ paymentRef' = cb.depositId
          /\ payError' = NoError
          /\ url' = [depositId |-> NoDep, payment |-> "none"]
     ELSE UNCHANGED <<payment, paymentRef, payError, url>>
  /\ UNCHANGED <<user, token, step, paying, flows, uiVars, store, period, server, exportBlocked, now, lastDl>>

\* ------------------------------------------------------ startPayment path
\* the await chain handlePrimary -> handlePay -> startPayment unwinds when
\* startPayment returns: auth.ts:505 setPaymentOpen(false), auth.ts:222
\* setBusy(false) on the modal instance that made the call, if still mounted
BusyAfterReturn(f) == IF flows[f].inModal THEN FALSE ELSE busy

\* Home.tsx:274-292 / 293-297 / 298-301: the state checkPaymentStatus writes
\* for a response, before it returns (or awaits downloadPdf)
\* mutant of StatusPayment: a failed report seen earlier makes the call ignore
\* a later completed one
StatusPayment_FailedSticks(f, r) ==
  IF Outcome(r) = "completed" /\ ~flows[f].sawFailed
  THEN [payment EXCEPT !.paid = TRUE, !.method = "mobile",
                       !.reference = flows[f].depositId, !.paidAt = now]
  ELSE payment

StatusPayment(f, r) ==
  IF Outcome(r) = "completed"
  THEN [payment EXCEPT !.paid = TRUE, !.method = "mobile",
                       !.reference = flows[f].depositId, !.paidAt = now]
  ELSE payment

\* mutant of StatusPaymentRef: the reference is recorded for a failed report too
StatusPaymentRef_OnFailed(f, r) ==
  IF Outcome(r) \in {"completed", "failed"} THEN flows[f].depositId ELSE paymentRef

StatusPaymentRef(f, r) ==
  IF Outcome(r) = "completed" THEN flows[f].depositId ELSE paymentRef

StatusPayError(r) ==
  CASE Outcome(r) = "completed" -> NoError
    [] Outcome(r) = "failed" -> failureMessage(r)
    [] Outcome(r) = "processing" -> MsgProcessing
    [] OTHER -> payError

StatusStep(r) == IF Outcome(r) = "completed" THEN 3 ELSE step

\* Home.tsx:288: the automatic downloadPdf call of the completed branch
AutoDownload(f, r) ==
  IF Outcome(r) = "completed"
  THEN [by |-> "auto", paid |-> StatusPayment(f, r).paid, blocked |-> exportBlocked]
  ELSE lastDl

\* whether a response of call f has reported failed so far
Seen(f, r) == flows[f].sawFailed \/ Outcome(r) = "failed"

\* Home.tsx:268, 305: the fetch threw or statusResponse.ok is false
TransportError(r) == r.threw \/ ~r.ok

\* the responses that take the failed branch, that failed in transport, that
\* are answered with a canonical status that is not terminal
FailedResponses == {r \in StatusResponses : Outcome(r) = "failed"}
ErrorResponses == {r \in StatusResponses : TransportError(r)}
NonTerminalResponses ==
  {r \in StatusResponses : ~r.threw /\ r.ok /\ r.status \in {"pending", "processing"}}

\* whether a status query of call f has failed in transport so far
SeenError(f, r) == flows[f].sawError \/ TransportError(r)

CountDl(f, r) ==
  IF Outcome(r) = "completed"
  THEN Min(flows[f].autoDl + 1, MaxDlCount) ELSE flows[f].autoDl

\* a slot for a new startPayment call: never used, or used by a call that is over
Free(f) == flows[f].pc = "unused" \/ Finished(f)
NextSlot(f) == Free(f) /\ \A g \in Flows : g < f => ~Free(g)

\* mutant of Rejection: the test of intent.method === 'card' is missing
Rejection_NoCardTest(method, hasPhone) ==
  IF user = "null" THEN MsgAuthRequired
  ELSE IF ~hasPhone THEN MsgPhoneRequired
  ELSE NoError

\* Home.tsx:205-216: the message startPayment returns early with (NoError: none,
\* the call goes on to the create request)
Rejection(method, hasPhone) ==
  IF user = "null" THEN MsgAuthRequired
  ELSE IF method = "card" THEN MsgCardDisabled
  ELSE IF ~hasPhone THEN MsgPhoneRequired
  ELSE NoError

\* Home.tsx:204-236: startPayment up to the await of the create request, called
\* by PaymentTabsModal.handlePrimary (auth.ts:212-218) through
\* PreviewScreen.handlePay (auth.ts:499-502)
StartPayment(f, method, hasPhone) ==
  IF Rejection(method, hasPhone) # NoError
  THEN /\ payError' = Rejection(method, hasPhone)
       /\ paymentOpen' = FALSE
       /\ busy' = FALSE
       /\ UNCHANGED <<paying, flows>>
  ELSE /\ payError' = NoError
       /\ paying' = TRUE
       /\ flows' = [flows EXCEPT ![f] =
                      [UnusedFlow EXCEPT !.pc = "creating", !.inModal = TRUE]]
       /\ busy' = TRUE
       /\ UNCHANGED paymentOpen

\* auth.ts:195-224: the primary button of the payment modal, not paid
HandlePrimaryPay(f, tab, valid) ==
  /\ previewOpen /\ paymentOpen
  /\ ~busy
  /\ ~payment.paid
  /\ NextSlot(f)
  /\ IF ~valid
     THEN UNCHANGED <<payError, paying, flows, paymentOpen, busy>>
     ELSE StartPayment(f, tab, TRUE)
  /\ UNCHANGED <<user, token, url, step, payment, paymentRef, cb, previewOpen,
                 store, period, server, exportBlocked, now, lastDl>>

\* mutant of CreateResponse: the test of paymentData.depositId is missing, a 200
\* answer without an identifier starts the polling
CreateResponse_NoIdCheck(f, c) ==
  /\ flows[f].pc = "creating"
  /\ IF ~c.threw /\ c.ok
     THEN /\ payError' = IF c.status \in {"processing", "pending"}
                         THEN MsgProcessing ELSE payError
          /\ flows' = [flows EXCEPT ![f] =
                         [@ EXCEPT !.pc = "live", !.depositId = DepositOf(f),
                                   !.active = TRUE, !.init = "fetch",
                                   !.queries = 1]]
          /\ UNCHANGED <<paying, paymentOpen, busy>>
     ELSE /\ payError' = IF c.threw THEN MsgFetchThrew ELSE errorMessage(c)
          /\ paying' = FALSE
          /\ flows' = [flows EXCEPT ![f] = UnusedFlow]
          /\ paymentOpen' = FALSE
          /\ busy' = BusyAfterReturn(f)
  /\ UNCHANGED <<user, token, url, step, payment, paymentRef, cb, previewOpen,
                 store, period, server, exportBlocked, now, lastDl>>

\* Home.tsx:238-257, 311-328, 330-336: the create request returns
CreateResponse(f, c) ==
  /\ flows[f].pc = "creating"
  /\ IF ~c.threw /\ c.ok /\ c.depositId
     THEN /\ payError' = IF c.status \in {"processing", "pending"}
                         THEN MsgProcessing ELSE payError
          /\ flows' = [flows EXCEPT ![f] =
                         [@ EXCEPT !.pc = "live", !.depositId = DepositOf(f),
                                   !.active = TRUE, !.init = "fetch",
                                   !.queries = 1]]
          /\ UNCHANGED <<paying, paymentOpen, busy>>
     ELSE /\ payError' = IF c.threw THEN MsgFetchThrew
                         ELSE IF ~c.ok THEN errorMessage(c)
                         ELSE MsgNoDepositId
          /\ paying' = FALSE
          /\ flows' = [flows EXCEPT ![f] = UnusedFlow]
          /\ paymentOpen' = FALSE
          /\ busy' = BusyAfterReturn(f)
  /\ UNCHANGED <<user, token, url, step, payment, paymentRef, cb, previewOpen,
                 store, period, server, exportBlocked, now, lastDl>>

\* Home.tsx:314-316: the interval fires: attempts++ and a status query goes out
Tick(f, cap) ==
  /\ flows[f].pc = "live"
  /\ flows[f].active
  /\ flows[f].attempts < cap
  /\ InFlight(f) < MaxInFlight
  /\ flows' = [flows EXCEPT ![f] =
                 [@ EXCEPT !.attempts = @ + 1, !.tickFetch = @ + 1,
                           !.queries = @ + 1]]
  /\ now' = Min(now + 1, MaxNow)
  /\ UNCHANGED <<user, token, url, homeVars, cb, uiVars, store, period, server, exportBlocked, lastDl>>

\* Home.tsx:328: the status query of the initial check returns; startPayment
\* returns unless the completed branch awaits downloadPdf
InitResponse(f, r) ==
  /\ flows[f].pc = "live"
  /\ flows[f].init = "fetch"
  /\ payment' = StatusPayment(f, r)
  /\ paymentRef' = StatusPaymentRef(f, r)
  /\ payError' = StatusPayError(r)
  /\ step' = StatusStep(r)
  /\ lastDl' = AutoDownload(f, r)
  /\ flows' = [flows EXCEPT ![f] =
                 [@ EXCEPT !.init = IF Outcome(r) = "completed"
                                    THEN "download" ELSE "done",
                           !.sawFailed = Seen(f, r), !.sawError = SeenError(f, r), !.autoDl = CountDl(f, r)]]
  /\ IF Outcome(r) = "completed"
     THEN UNCHANGED <<paymentOpen, busy>>
     ELSE paymentOpen' = FALSE /\ busy' = BusyAfterReturn(f)
  /\ UNCHANGED <<user, token, url, paying, cb, previewOpen, store, period, server, exportBlocked, now>>

\* Home.tsx:288-292, 328: the download of the initial check ends (or throws into
\* the catch of checkPaymentStatus); the result is dropped
InitDownloadDone(f) ==
  /\ flows[f].pc = "live"
  /\ flows[f].init = "download"
  /\ flows' = [flows EXCEPT ![f] = [@ EXCEPT !.init = "done"]]
  /\ paymentOpen' = FALSE
  /\ busy' = BusyAfterReturn(f)
  /\ UNCHANGED <<user, token, url, homeVars, cb, previewOpen, store, period, server, exportBlocked,
                 now, lastDl>>

\* Home.tsx:318-324: what the interval callback does with the result
AfterPoll(f, completed, failed, shown) ==
  IF PollStops(completed, failed, flows[f].attempts)
  THEN /\ paying' = FALSE
       /\ payError' = IF ShowsTimeout(completed, flows[f].attempts)
                      THEN MsgTimeout ELSE shown
  ELSE /\ payError' = shown
       /\ UNCHANGED paying

\* Home.tsx:316-324: the status query of an interval tick returns
TickResponse(f, r) ==
  /\ flows[f].pc = "live"
  /\ flows[f].tickFetch > 0
  /\ payment' = StatusPayment(f, r)
  /\ paymentRef' = StatusPaymentRef(f, r)
  /\ step' = StatusStep(r)
  /\ lastDl' = AutoDownload(f, r)
  /\ IF Outcome(r) = "completed"
     THEN /\ payError' = StatusPayError(r)
          /\ flows' = [flows EXCEPT ![f] =
                         [@ EXCEPT !.tickFetch = @ - 1, !.tickDl = @ + 1,
                                   !.sawFailed = Seen(f, r), !.sawError = SeenError(f, r), !.autoDl = CountDl(f, r)]]
          /\ UNCHANGED paying
     ELSE /\ AfterPoll(f, FALSE, Outcome(r) = "failed", StatusPayError(r))
          /\ flows' = [flows EXCEPT ![f] =
                         [@ EXCEPT !.tickFetch = @ - 1, !.sawFailed = Seen(f, r), !.sawError = SeenError(f, r),
                                   !.active = @ /\ ~PollStops(FALSE, Outcome(r) = "failed",
                                                              flows[f].attempts)]]
  /\ UNCHANGED <<user, token, url, cb, uiVars, store, period, server, exportBlocked, now>>

\* Home.tsx:288-292, 318-324: the download of an interval tick ends; when it
\* throws, the catch of checkPaymentStatus returns {completed: false}
TickDownloadDone(f, threw) ==
  /\ flows[f].pc = "live"
  /\ flows[f].tickDl > 0
  /\ AfterPoll(f, ~threw, FALSE, payError)
  /\ flows' = [flows EXCEPT ![f] =
                 [@ EXCEPT !.tickDl = @ - 1,
                           !.active = @ /\ ~PollStops(~threw, FALSE, flows[f].attempts)]]
  /\ UNCHANGED <<user, token, url, step, payment, paymentRef, cb, uiVars,
                 store, period, server, exportBlocked, now, lastDl>>

\* ----------------------------------------------- preview and payment modal
\* the PaymentTabsModal instance is unmounted (PreviewScreen renders null,
\* auth.ts:476): the calls it made keep running but no longer reach its state
Unmounted == [f \in Flows |-> [flows[f] EXCEPT !.inModal = FALSE]]

\* Home.tsx:639-642, 651: DownloadCta onPay / onOpenPreview; auth.ts:470-474:
\* the preview opens the payment modal when not paid
OpenPreview ==
  /\ ~previewOpen
  /\ user # "null"
  /\ previewOpen' = TRUE
  /\ paymentOpen' = (paymentOpen \/ ~payment.paid)
  /\ busy' = FALSE
  /\ UNCHANGED <<user, token, url, homeVars, cb, flows, store, period, server, exportBlocked, now, lastDl>>

\* Home.tsx:807 / auth.ts:524: Back closes the preview
ClosePreview ==
  /\ previewOpen
  /\ previewOpen' = FALSE
  /\ busy' = FALSE
  /\ flows' = Unmounted
  /\ UNCHANGED <<user, token, url, homeVars, cb, paymentOpen, store, period, server, exportBlocked,
                 now, lastDl>>

\* auth.ts:494-496, 581-582: "confirm and pay" reopens the payment modal
HandleConfirm ==
  /\ previewOpen
  /\ ~payment.paid
  /\ ~exportBlocked
  /\ paymentOpen' = TRUE
  /\ UNCHANGED <<user, token, url, homeVars, cb, flows, previewOpen, busy,
                 store, period, server, exportBlocked, now, lastDl>>

\* auth.ts:176-192: the modal asks to close; paymentStatus is never passed by
\* PreviewScreen (auth.ts:593-605), so it is 'idle' and the close goes through
HandleOpenChange ==
  /\ previewOpen /\ paymentOpen
  /\ paymentOpen' = FALSE
  /\ busy' = FALSE
  /\ UNCHANGED <<user, token, url, homeVars, cb, flows, previewOpen,
                 store, period, server, exportBlocked, now, lastDl>>

\* auth.ts:479-491: printNow: downloadPdf, then onClose
PrintNowEffect ==
  IF exportBlocked
  THEN UNCHANGED <<lastDl, previewOpen, busy, flows>>
  ELSE /\ lastDl' = [by |-> "user", paid |-> payment.paid, blocked |-> exportBlocked]
       /\ previewOpen' = FALSE
       /\ busy' = FALSE
       /\ flows' = Unmounted

\* mutant of PrimaryDownloads: the paid test is dropped
PrimaryDownloads_Unchecked == TRUE

\* auth.ts:197   if (paid)
PrimaryDownloads == payment.paid

\* auth.ts:195-200: the primary button of the payment modal, paid
HandlePrimaryPaid ==
  /\ previewOpen /\ paymentOpen
  /\ ~busy
  /\ PrimaryDownloads
  /\ PrintNowEffect
  /\ UNCHANGED <<user, token, url, homeVars, cb, paymentOpen, store, period, server, exportBlocked, now>>

\* auth.ts:581   onClick={payment.paid ? printNow : handleConfirm}
PrintNow ==
  /\ previewOpen
  /\ payment.paid
  /\ PrintNowEffect
  /\ UNCHANGED <<user, token, url, homeVars, cb, paymentOpen, store, period, server, exportBlocked, now>>

\* DownloadCta (Home.tsx:635-652): its source is not in the repository; with
\* paid it offers the download and calls onDownload (Home.tsx:643-648)
DownloadCtaClick ==
  /\ payment.paid
  /\ ~exportBlocked
  /\ lastDl' = [by |-> "user", paid |-> payment.paid, blocked |-> exportBlocked]
  /\ UNCHANGED <<user, token, url, homeVars, cb, flows, uiVars, store, period, server, exportBlocked, now>>

\* ------------------------------------------------------------------- Next
\* The page with its preview and payment modal; one payment attempt at a time
\* (a new one once the previous call is over), each followed for MaxTicks ticks.
Next ==
  \/ CheckPaymentFromUrl
  \/ \E r \in StatusResponses : CallbackResponse(r)
  \/ OpenPreview
  \/ ClosePreview
  \/ HandleConfirm
  \/ HandleOpenChange
  \/ \E tab \in {"mobile", "card"}, valid \in BOOLEAN : HandlePrimaryPay(1, tab, valid)
  \/ HandlePrimaryPaid
  \/ PrintNow
  \/ DownloadCtaClick
  \/ \E c \in CreateResponses : CreateResponse(1, c)
  \/ Tick(1, MaxTicks)
  \/ \E r \in StatusResponses : InitResponse(1, r)
  \/ InitDownloadDone(1)
  \/ \E r \in StatusResponses : TickResponse(1, r)
  \/ \E threw \in BOOLEAN : TickDownloadDone(1, threw)

Spec == Init /\ [][Next]_vars

\* The same page when the user may submit again while an earlier attempt is
\* still running: every slot of Flows may hold a running call.
NextTwo ==
  \/ OpenPreview
  \/ ClosePreview
  \/ HandleConfirm
  \/ HandleOpenChange
  \/ \E f \in Flows, tab \in {"mobile", "card"}, valid \in BOOLEAN :
       HandlePrimaryPay(f, tab, valid)
  \/ \E f \in Flows, c \in CreateResponses : CreateResponse(f, c)
  \/ \E f \in Flows : Tick(f, MaxTicksTwo)
  \/ \E f \in Flows, r \in StatusResponses : InitResponse(f, r)
  \/ \E f \in Flows : InitDownloadDone(f)
  \/ \E f \in Flows, r \in StatusResponses : TickResponse(f, r)
  \/ \E f \in Flows, threw \in BOOLEAN : TickDownloadDone(f, threw)

InitTwo == Init /\ url.depositId = NoDep

SpecTwo == InitTwo /\ [][NextTwo]_vars

\* One payment attempt followed to its end: the user opens the preview and
\* submits once; the interval runs its full budget.
NextPoll ==
  \/ CheckPaymentFromUrl
  \/ \E r \in StatusResponses : CallbackResponse(r)
  \/ OpenPreview
  \/ \E tab \in {"mobile", "card"}, valid \in BOOLEAN : HandlePrimaryPay(1, tab, valid)
  \/ \E c \in CreateResponses : CreateResponse(1, c)
  \/ Tick(1, maxAttempts + MaxInFlight)
  \/ \E r \in StatusResponses : InitResponse(1, r)
  \/ InitDownloadDone(1)
  \/ \E r \in StatusResponses : TickResponse(1, r)
  \/ \E threw \in BOOLEAN : TickDownloadDone(1, threw)

SpecPoll == Init /\ [][NextPoll]_vars

\* A retry: the first call has been reported failed, its interval is cleared
\* and paying is false again; the user then submits a second time.
NextRetry ==
  \/ OpenPreview
  \/ ClosePreview
  \/ HandleConfirm
  \/ HandleOpenChange
  \/ \E tab \in {"mobile", "card"}, valid \in BOOLEAN :
       flows[1].pc = "unused" /\ HandlePrimaryPay(1, tab, valid)
  \/ \E tab \in {"mobile", "card"}, valid \in BOOLEAN :
       /\ flows[1].sawFailed /\ ~flows[1].active /\ ~paying
       /\ HandlePrimaryPay(2, tab, valid)
  \/ \E f \in Flows, c \in CreateResponses : CreateResponse(f, c)
  \/ \E f \in Flows : Tick(f, MaxTicksTwo)
  \/ \E f \in Flows, r \in StatusResponses : InitResponse(f, r)
  \/ \E f \in Flows : InitDownloadDone(f)
  \/ \E f \in Flows, r \in StatusResponses : TickResponse(f, r)
  \/ \E f \in Flows, threw \in BOOLEAN : TickDownloadDone(f, threw)

SpecRetry == InitTwo /\ [][NextRetry]_vars

\* One payment attempt whose intent is confirmed late: the initial check is
\* answered before the gateway has a terminal status (or fails in transport),
\* the ticks are answered non-terminal or completed, never failed.
NextLate ==
  \/ OpenPreview
  \/ ClosePreview
  \/ HandleConfirm
  \/ HandleOpenChange
  \/ \E tab \in {"mobile", "card"}, valid \in BOOLEAN : HandlePrimaryPay(1, tab, valid)
  \/ \E c \in CreateResponses : CreateResponse(1, c)
  \/ Tick(1, MaxTicks)
  \/ \E r \in NonTerminalResponses \cup ErrorResponses :
       Outcome(r) \in {"processing", "none"} /\ InitResponse(1, r)
  \/ \E r \in StatusResponses \ FailedResponses : TickResponse(1, r)
  \/ \E threw \in BOOLEAN : TickDownloadDone(1, threw)

SpecLate == InitTwo /\ [][NextLate]_vars

\* ------------------------------------------------------------- teardown
\* Home.tsx:143-148: without a user the page navigates to /auth and Home is
\* unmounted; its state is discarded and its setters no longer do anything
TornDown == user = "null"

\* part_000:75-80 logout, then Home.tsx:143-148: the session ends and Home
\* unmounts.  startPayment registers no cleanup for its interval
\* (Home.tsx:314-325), so the closures of running calls stay as they are.
Logout ==
  /\ ~TornDown
  /\ user' = "null"
  /\ token' = "null"
  /\ previewOpen' = FALSE
  /\ paymentOpen' = FALSE
  /\ busy' = FALSE
  /\ flows' = Unmounted
  /\ UNCHANGED <<url, homeVars, cb, period, server, exportBlocked, now, lastDl>>
  /\ store' = [store EXCEPT !.error = "null"]

\* Home.tsx:238-257, 311-328 after the unmount: the create request returns and
\* the closure starts its interval and its initial check all the same
DetachedCreateResponse(f, c) ==
  /\ TornDown
  /\ flows[f].pc = "creating"
  /\ flows' = [flows EXCEPT ![f] =
                 IF ~c.threw /\ c.ok /\ c.depositId
                 THEN [@ EXCEPT !.pc = "live", !.depositId = DepositOf(f),
                                !.active = TRUE, !.init = "fetch", !.queries = 1]
                 ELSE UnusedFlow]
  /\ UNCHANGED <<user, token, url, homeVars, cb, uiVars, store, period, server, exportBlocked, now, lastDl>>

\* Home.tsx:260-309 after the unmount: checkPaymentStatus of the initial check
\* or of a tick gets its response; the completed branch still calls downloadPdf
DetachedResponse(f, r, initial) ==
  /\ TornDown
  /\ flows[f].pc = "live"
  /\ IF initial THEN flows[f].init = "fetch" ELSE flows[f].tickFetch > 0
  /\ lastDl' = AutoDownload(f, r)
  /\ flows' = [flows EXCEPT ![f] =
       IF initial
       THEN [@ EXCEPT !.init = IF Outcome(r) = "completed" THEN "download" ELSE "done",
                      !.sawFailed = Seen(f, r), !.sawError = SeenError(f, r), !.autoDl = CountDl(f, r)]
       ELSE IF Outcome(r) = "completed"
       THEN [@ EXCEPT !.tickFetch = @ - 1, !.tickDl = @ + 1,
                      !.sawFailed = Seen(f, r), !.sawError = SeenError(f, r), !.autoDl = CountDl(f, r)]
       ELSE [@ EXCEPT !.tickFetch = @ - 1, !.sawFailed = Seen(f, r), !.sawError = SeenError(f, r),
                      !.active = @ /\ ~PollStops(FALSE, Outcome(r) = "failed",
                                                 flows[f].attempts)]]
  /\ UNCHANGED <<user, token, url, homeVars, cb, uiVars, store, period, server, exportBlocked, now>>

\* Home.tsx:288-292, 318-319 after the unmount: a download settles
DetachedDownloadDone(f, initial, threw) ==
  /\ TornDown
  /\ flows[f].pc = "live"
  /\ IF initial THEN flows[f].init = "download" ELSE flows[f].tickDl > 0
  /\ flows' = [flows EXCEPT ![f] =
       IF initial THEN [@ EXCEPT !.init = "done"]
       ELSE [@ EXCEPT !.tickDl = @ - 1,
                      !.active = @ /\ ~PollStops(~threw, FALSE, flows[f].attempts)]]
  /\ UNCHANGED <<user, token, url, homeVars, cb, uiVars, store, period, server, exportBlocked, now, lastDl>>

\* One payment attempt and a logout at any moment of it.
NextDown ==
  \/ ~TornDown /\ OpenPreview
  \/ ~TornDown /\ \E tab \in {"mobile", "card"}, valid \in BOOLEAN :
                    HandlePrimaryPay(1, tab, valid)
  \/ ~TornDown /\ \E c \in CreateResponses : CreateResponse(1, c)
  \/ ~TornDown /\ \E r \in StatusResponses : InitResponse(1, r)
  \/ ~TornDown /\ InitDownloadDone(1)
  \/ ~TornDown /\ \E r \in StatusResponses : TickResponse(1, r)
  \/ ~TornDown /\ \E threw \in BOOLEAN : TickDownloadDone(1, threw)
  \/ Tick(1, MaxTicks)
  \/ Logout
  \/ \E c \in CreateResponses : DetachedCreateResponse(1, c)
  \/ \E r \in StatusResponses, initial \in BOOLEAN : DetachedResponse(1, r, initial)
  \/ \E initial, threw \in BOOLEAN : DetachedDownloadDone(1, initial, threw)

SpecDown == InitTwo /\ [][NextDown]_vars

\* ---------------------------------------------------------- plan selection
\* mutant of ChoosePlan: the price is not recomputed with the plan
ChoosePlan_KeepsPrice(plan) ==
  /\ previewOpen \/ step = 3
  /\ payment' = [payment EXCEPT !.plan = plan]
  /\ UNCHANGED <<user, token, url, step, paying, payError, paymentRef, cb, flows,
                 uiVars, store, period, server, exportBlocked, now, lastDl>>

\* Home.tsx:191-192 choosePlan, called by the PricingTier cards of the preview
\* (auth.ts:549-572) and of the PaymentPanel shown at step 3 (Home.tsx:873-898)
ChoosePlan(plan) ==
  /\ previewOpen \/ step = 3
  /\ payment' = [payment EXCEPT !.plan = plan, !.price = priceOf(plan)]
  /\ UNCHANGED <<user, token, url, step, paying, payError, paymentRef, cb, flows,
                 uiVars, store, period, server, exportBlocked, now, lastDl>>

\* One payment attempt, the redirect callback, and the plan cards.
NextPlan ==
  \/ CheckPaymentFromUrl
  \/ \E r \in StatusResponses : CallbackResponse(r)
  \/ OpenPreview
  \/ ClosePreview
  \/ \E plan \in Plans : ChoosePlan(plan)
  \/ \E tab \in {"mobile", "card"}, valid \in BOOLEAN : HandlePrimaryPay(1, tab, valid)
  \/ \E c \in CreateResponses : CreateResponse(1, c)
  \/ Tick(1, MaxTicks)
  \/ \E r \in StatusResponses : InitResponse(1, r)
  \/ InitDownloadDone(1)
  \/ \E r \in StatusResponses : TickResponse(1, r)
  \/ \E threw \in BOOLEAN : TickDownloadDone(1, threw)

SpecPlan == Init /\ [][NextPlan]_vars

\* ------------------------------------------------------------ stored draft
\* Home.tsx:339-362: on mount the page takes the plan of a stored draft or
\* profile, cast to ResumePlan without a test, and prices it with priceOf
StoredPlans == Plans \cup {"other"}

InitDraft ==
  /\ user = "u"
  /\ token = "tok"
  /\ url \in Urls
  /\ step = 1
  /\ \E plan \in StoredPlans :
       payment = [InitialPayment EXCEPT !.plan = plan, !.price = priceOf(plan)]
  /\ paying = FALSE
  /\ payError = NoError
  /\ paymentRef = NoDep
  /\ cb = [pc |-> "ready", depositId |-> NoDep, bearer |-> "null"]
  /\ flows = [f \in Flows |-> UnusedFlow]
  /\ previewOpen = FALSE
  /\ paymentOpen = FALSE
  /\ busy = FALSE
  /\ store = ReadyStore
  /\ server = InitialServer
  /\ period = NoPeriod
  /\ exportBlocked = FALSE
  /\ now = 0
  /\ lastDl = [by |-> "none", paid |-> FALSE, blocked |-> FALSE]

SpecDraft == InitDraft /\ [][NextPlan]_vars

\* ------------------------------------------------- session at mount time
\* part_000:23-24, 82-88: the persisted store holds a user and a token, or
\* neither, when Home mounts
InitAuth ==
  /\ user \in {"u", "null"}
  /\ token = IF user = "null" THEN "null" ELSE "tok"
  /\ url \in Urls
  /\ step = 1
  /\ payment = InitialPayment
  /\ paying = FALSE
  /\ payError = NoError
  /\ paymentRef = NoDep
  /\ cb = [pc |-> "ready", depositId |-> NoDep, bearer |-> "null"]
  /\ flows = [f \in Flows |-> UnusedFlow]
  /\ previewOpen = FALSE
  /\ paymentOpen = FALSE
  /\ busy = FALSE
  /\ store = ReadyStore
  /\ server = InitialServer
  /\ period = NoPeriod
  /\ exportBlocked = FALSE
  /\ now = 0
  /\ lastDl = [by |-> "none", paid |-> FALSE, blocked |-> FALSE]

\* The redirect callback and one payment attempt, with or without a session and
\* with a logout at any moment.
NextAuth ==
  \/ CheckPaymentFromUrl
  \/ ~TornDown /\ \E r \in StatusResponses : CallbackResponse(r)
  \/ NextDown

SpecAuth == InitAuth /\ [][NextAuth]_vars

\* Home.tsx:204-236: startPayment called with an intent of either method, with
\* or without a phone number, whatever the session
StartPaymentCall(method, hasPhone) ==
  /\ NextSlot(1)
  /\ StartPayment(1, method, hasPhone)
  /\ UNCHANGED <<user, token, url, step, payment, paymentRef, cb, previewOpen,
                 store, period, server, exportBlocked, now, lastDl>>

\* startPayment called with every kind of intent, with or without a session,
\* and a logout at any moment.
NextStart ==
  \/ \E method \in {"mobile", "card"}, hasPhone \in BOOLEAN :
       StartPaymentCall(method, hasPhone)
  \/ NextDown

SpecStart == InitAuth /\ [][NextStart]_vars

\* ------------------------------------------------------------ the periods
\* Home.tsx:112, 420-427: the form changes the entry's dates (setData); the
\* render that follows recomputes hasDateErrors
EditPeriod(p) ==
  /\ user # "null"
  /\ p # period
  /\ period' = p
  /\ exportBlocked' = hasDateErrors(p)
  /\ UNCHANGED <<user, token, url, homeVars, cb, flows, uiVars, server, store,
                 now, lastDl>>

\* Home.tsx:112, 420-427: the page has mounted with initialResume; the first
\* render computes hasDateErrors
InitDates ==
  /\ user = "u"
  /\ token = "tok"
  /\ url = [depositId |-> NoDep, payment |-> "none"]
  /\ step = 1
  /\ payment = InitialPayment
  /\ paying = FALSE
  /\ payError = NoError
  /\ paymentRef = NoDep
  /\ cb = [pc |-> "ready", depositId |-> NoDep, bearer |-> "null"]
  /\ flows = [f \in Flows |-> UnusedFlow]
  /\ previewOpen = FALSE
  /\ paymentOpen = FALSE
  /\ busy = FALSE
  /\ store = ReadyStore
  /\ server = InitialServer
  /\ period = NoPeriod
  /\ exportBlocked = hasDateErrors(NoPeriod)
  /\ now = 0
  /\ lastDl = [by |-> "none", paid |-> FALSE, blocked |-> FALSE]

\* The user edits the dates of the entry and opens or closes the preview.
NextDates ==
  \/ \E p \in Periods : EditPeriod(p)
  \/ OpenPreview
  \/ ClosePreview

SpecDates == InitDates /\ [][NextDates]_vars

\* an entry without dates and one whose end lies before its start
ExportPeriods ==
  {NoPeriod,
   [start |-> Str(<<"2", "0", "2", "0", "-", "0", "5">>),
    end |-> Str(<<"2", "0", "1", "9", "-", "1", "2">>)]}

\* One payment attempt and the download buttons, while the user may edit the
\* dates of the entry whenever the full-screen preview is closed; the preview is
\* opened only while the export is not blocked.
NextExport ==
  \/ ~previewOpen /\ \E p \in ExportPeriods : EditPeriod(p)
  \/ ~exportBlocked /\ OpenPreview
  \/ ClosePreview
  \/ HandleConfirm
  \/ HandleOpenChange
  \/ \E tab \in {"mobile", "card"}, valid \in BOOLEAN : HandlePrimaryPay(1, tab, valid)
  \/ \E c \in CreateResponses : CreateResponse(1, c)
  \/ Tick(1, MaxTicksTwo)
  \/ \E r \in StatusResponses : InitResponse(1, r)
  \/ InitDownloadDone(1)
  \/ \E r \in StatusResponses : TickResponse(1, r)
  \/ \E threw \in BOOLEAN : TickDownloadDone(1, threw)
  \/ HandlePrimaryPaid
  \/ PrintNow
  \/ DownloadCtaClick

SpecExport == InitDates /\ [][NextExport]_vars

\* ----------------------------------------------------- auth store actions
\* part_000:35-40: hydrate reads the token; without one it only sets
\* initialized, with one it sends the me request
Hydrate ==
  /\ \A t \in Tokens : store.hydrating[t] < MaxHydrates
  /\ store' = IF token = "null"
              THEN [store EXCEPT !.initialized = TRUE]
              ELSE [store EXCEPT !.hydrating[token] = @ + 1]
  /\ UNCHANGED <<user, token, url, homeVars, cb, flows, uiVars, period,
                 server, exportBlocked, now, lastDl>>

\* part_000:41-46: the me request a hydrate call sent with token t returns:
\* set({user: res.user, initialized}) or, when it threw, set({user: null,
\* token: null, initialized})
HydrateResponse(t, ok) ==
  /\ store.hydrating[t] > 0
  /\ store' = [store EXCEPT !.hydrating[t] = @ - 1, !.initialized = TRUE]
  /\ IF ok
     THEN user' = UserOf(t) /\ UNCHANGED token
     ELSE user' = "null" /\ token' = "null"
  /\ UNCHANGED <<url, homeVars, cb, flows, uiVars, period, server, exportBlocked, now,
                 lastDl>>

\* part_000:49-52, 62-65: signup or login up to the await of its request
SignStart ==
  /\ store.signing < MaxSigns
  /\ store' = [store EXCEPT !.loading = TRUE, !.error = "null",
                            !.signing = @ + 1]
  /\ UNCHANGED <<user, token, url, homeVars, cb, flows, uiVars, period,
                 server, exportBlocked, now, lastDl>>

\* part_000:52-59, 65-72: the request of signup or login returns
SignResponse(a, ok) ==
  /\ store.signing > 0
  /\ store' = [store EXCEPT !.signing = @ - 1, !.loading = FALSE,
                            !.error = IF ok THEN @ ELSE "failed"]
  /\ IF ok
     THEN user' = a /\ token' = TokenOf(a)
     ELSE UNCHANGED <<user, token>>
  /\ UNCHANGED <<url, homeVars, cb, flows, uiVars, period, server, exportBlocked, now,
                 lastDl>>

\* part_000:31-33 setSession
SetSession(a) ==
  /\ user' = a
  /\ token' = TokenOf(a)
  /\ store' = [store EXCEPT !.error = "null"]
  /\ UNCHANGED <<url, homeVars, cb, flows, uiVars, period, server, exportBlocked, now,
                 lastDl>>

\* part_000:20-27, 82-88: the store is created and persist restores the stored
\* token and user, if any
InitStore ==
  /\ user \in {"u", "null"}
  /\ token = IF user = "null" THEN "null" ELSE "tok"
  /\ url = [depositId |-> NoDep, payment |-> "none"]
  /\ step = 1
  /\ payment = InitialPayment
  /\ paying = FALSE
  /\ payError = NoError
  /\ paymentRef = NoDep
  /\ cb = [pc |-> "ready", depositId |-> NoDep, bearer |-> "null"]
  /\ flows = [f \in Flows |-> UnusedFlow]
  /\ previewOpen = FALSE
  /\ paymentOpen = FALSE
  /\ busy = FALSE
  /\ store = InitialStore
  /\ server = InitialServer
  /\ period = NoPeriod
  /\ exportBlocked = FALSE
  /\ now = 0
  /\ lastDl = [by |-> "none", paid |-> FALSE, blocked |-> FALSE]

\* The operations of the store in any order, their requests returning at any
\* moment.
NextStore ==
  \/ Hydrate
  \/ \E t \in Tokens, ok \in BOOLEAN : HydrateResponse(t, ok)
  \/ SignStart
  \/ \E a \in Accounts, ok \in BOOLEAN : SignResponse(a, ok)
  \/ \E a \in Accounts : SetSession(a)
  \/ Logout

SpecStore == InitStore /\ [][NextStore]_vars

\* ------------------------------------------------------- server actions
\* server.mjs:60-65: a signup request with an email and a password arrives and
\* awaits readUsers
SignupArrive(r, email) ==
  /\ server.reqs[r].pc = "idle"
  /\ \A q \in Reqs : q < r => server.reqs[q].pc # "idle"
  /\ server' = [server EXCEPT !.reqs[r] =
                  [pc |-> "reading", email |-> email, users |-> <<>>]]
  /\ UNCHANGED <<user, token, url, homeVars, cb, flows, uiVars, store, period,
                 exportBlocked, now, lastDl>>

\* server.mjs:69-75: the user record a request pushes
NewUser(r) == [id |-> r, email |-> server.reqs[r].email]

\* server.mjs:33-37, 65-76: readUsers returns the file's content; the request
\* answers 409 when the email is in it, otherwise pushes its user and awaits
\* writeUsers
SignupRead(r) ==
  /\ server.reqs[r].pc = "reading"
  /\ server' = [server EXCEPT !.reqs[r] =
                  IF Exists(server.file, server.reqs[r].email)
                  THEN [@ EXCEPT !.pc = "conflict"]
                  ELSE [@ EXCEPT !.pc = "writing",
                                 !.users = Append(server.file, NewUser(r))]]
  /\ UNCHANGED <<user, token, url, homeVars, cb, flows, uiVars, store, period,
                 exportBlocked, now, lastDl>>

\* server.mjs:39-42, 76-78: writeUsers replaces the file with the request's
\* list; the request answers 200 with the token
SignupWrite(r) ==
  /\ server.reqs[r].pc = "writing"
  /\ server' = [server EXCEPT !.file = server.reqs[r].users,
                              !.reqs[r] = [@ EXCEPT !.pc = "ok"]]
  /\ UNCHANGED <<user, token, url, homeVars, cb, flows, uiVars, store, period,
                 exportBlocked, now, lastDl>>

\* server.mjs:17-22: the server has started; no page is involved
InitServer ==
  /\ user = "null"
  /\ token = "null"
  /\ url = [depositId |-> NoDep, payment |-> "none"]
  /\ step = 1
  /\ payment = InitialPayment
  /\ paying = FALSE
  /\ payError = NoError
  /\ paymentRef = NoDep
  /\ cb = [pc |-> "ready", depositId |-> NoDep, bearer |-> "null"]
  /\ flows = [f \in Flows |-> UnusedFlow]
  /\ previewOpen = FALSE
  /\ paymentOpen = FALSE
  /\ busy = FALSE
  /\ server = InitialServer
  /\ store = InitialStore
  /\ period = NoPeriod
  /\ exportBlocked = FALSE
  /\ now = 0
  /\ lastDl = [by |-> "none", paid |-> FALSE, blocked |-> FALSE]

\* Signup requests arrive at any moment; their reads and writes of the users
\* file interleave.
NextServer ==
  \/ \E r \in Reqs, email \in Emails : SignupArrive(r, email)
  \/ \E r \in Reqs : SignupRead(r)
  \/ \E r \in Reqs : SignupWrite(r)

SpecServer == InitServer /\ [][NextServer]_vars

\* ================================================================== claims
FailureTexts == {MsgNotApproved, MsgGatewayReason}

\* a status query of call f has returned
Returned(f) ==
  flows[f].queries
    > flows[f].tickFetch + (IF flows[f].init = "fetch" THEN 1 ELSE 0)

\* the intent with identifier d was created by a call of this page
Created(d) == \E f \in Flows : flows[f].pc = "live" /\ flows[f].depositId = d

\* the state of intent d in the terms of the transition table, read off the
\* page's state
StatusOf(d) ==
  IF payment.paid /\ payment.reference = d THEN "completed"
  ELSE IF ~Created(d) THEN "idle"
  ELSE IF payError = MsgTimeout THEN "timed_out"
  ELSE IF payError \in FailureTexts THEN "failed"
  ELSE IF payError = MsgProcessing
          /\ \E f \in Flows : flows[f].depositId = d /\ Returned(f)
       THEN "processing"
  ELSE "pending"

AllowedEdges ==
  {<<"idle", "pending">>, <<"pending", "processing">>}
  \cup ({"pending", "processing"} \X {"completed", "failed", "timed_out"})

\* a response of the given outcome is applied by checkPaymentStatus of call f
Applied(f, r) == InitResponse(f, r) \/ TickResponse(f, r)

\* a completed report that carries the provider's explicit status code
Confirmed(r) ==
  ~r.threw /\ r.ok /\ r.status = "completed" /\ r.pawapayStatus = "COMPLETED"

\* a report whose canonical status says completed without the provider's code
Unconfirmed(r) ==
  ~r.threw /\ r.ok /\ r.status = "completed" /\ r.pawapayStatus # "COMPLETED"

\* the step ends a status query of call f (every step of Applied does)
Answers(f) ==
  /\ flows[f].pc = "live"
  /\ flows[f].init = "fetch" \/ flows[f].tickFetch > 0
  /\ flows'[f] # flows[f]

\* the responses that are gateway-confirmed completed
ConfirmedResponses == {r \in StatusResponses : Confirmed(r)}

\* C1: for one intent the automatic downloadPdf call of checkPaymentStatus
\* fires at most once, whatever the responses and their interleaving.
C1_AutoDownloadAtMostOnce == \A f \in Flows : flows[f].autoDl <= 1

\* C2: the status of an intent only moves along the edges of the transition
\* table (steps that start a new call, which supersedes the intent, aside).
C2_StatusEdges ==
  [][\A d \in {"D1", "D2"} :
       ((\A f \in Flows : flows'[f].pc = "creating" => flows[f].pc = "creating")
        /\ StatusOf(d)' # StatusOf(d))
       => <<StatusOf(d), StatusOf(d)'>> \in AllowedEdges]_vars

\* C3: once paid, a failed report applied afterwards changes neither payment
\* nor the message shown, and paid never returns to false.
C3_CompletedSticky ==
  [][/\ payment.paid => payment'.paid
     /\ \A f \in Flows : \A r \in StatusResponses :
          (payment.paid /\ Outcome(r) = "failed" /\ Applied(f, r))
          => (payment' = payment /\ paymentRef' = paymentRef
              /\ payError' = payError)]_vars

C5_OverrideNeedsCode ==
  [][/\ \A f \in Flows : \A r \in StatusResponses :
          (~payment.paid /\ (flows[f].sawFailed \/ payError = MsgTimeout)
           /\ Unconfirmed(r) /\ Applied(f, r))
          => ~payment'.paid
     /\ \A r \in StatusResponses :
          (~payment.paid /\ payError \in FailureTexts \cup {MsgTimeout}
           /\ Unconfirmed(r) /\ CallbackResponse(r))
          => ~payment'.paid]_vars

\* C6: a call whose responses were all non-terminal through the whole budget
\* ends timed out: interval cleared, paying false, the timeout text shown,
\* not paid, no download.
C6_EndsTimedOut ==
  \A f \in Flows :
    (Finished(f) /\ flows[f].attempts >= maxAttempts
     /\ ~flows[f].sawFailed /\ flows[f].autoDl = 0 /\ ~payment.paid)
    => (payError = MsgTimeout /\ ~paying /\ lastDl.by = "none")

\* C7: no 41st status query is issued for one intent (initial check and
\* interval ticks counted).
C7_QueryBudget == \A f \in Flows : flows[f].queries <= maxAttempts

\* C8: at most one intent is being created or polled at any time.
C8_OneActiveIntent ==
  Cardinality({f \in Flows : flows[f].pc = "creating"
                             \/ (flows[f].pc = "live" /\ flows[f].active)}) <= 1

\* C9: no status query of an intent is issued while an earlier one (or the
\* download it triggered) is still in flight.
C9_OnePollInFlight == \A f \in Flows : InFlight(f) <= 1

SawTerminal(f) == flows[f].sawFailed \/ flows[f].autoDl > 0

\* C11: once a status response of a call has reported completed or failed, no
\* further status query is issued for that intent, whichever check saw it.
C11_PollerStopsOnTerminal ==
  [][\A f \in Flows :
       (SawTerminal(f) /\ flows'[f].pc = "live")
       => flows'[f].queries <= flows[f].queries]_vars

\* C12: after the session is torn down (logout, Home unmounted) no interval
\* tick issues a status query, and no call changes the payment state or fires
\* the download.
C12_TeardownCancels ==
  [][TornDown =>
       /\ \A f \in Flows :
            (flows[f].pc = "live" /\ flows'[f].pc = "live")
            => flows'[f].queries <= flows[f].queries
       /\ payment' = payment
       /\ lastDl' = lastDl]_vars

\* C13: payment.reference and paymentRef are written only by a step that
\* applies a completed status response, with the depositId that was queried;
\* paid goes with a reference, and not paid with none.
C13_ReferenceOnlyOnCompleted ==
  /\ [](IF payment.paid
        THEN payment.reference # NoDep /\ paymentRef = payment.reference
        ELSE payment.reference = NoDep /\ paymentRef = NoDep)
  /\ [][(payment'.reference # payment.reference \/ paymentRef' # paymentRef)
        => \/ \E f \in Flows : \E r \in StatusResponses :
                /\ Outcome(r) = "completed" /\ Applied(f, r)
                /\ payment'.paid
                /\ payment'.reference = flows[f].depositId
                /\ paymentRef' = flows[f].depositId
           \/ \E r \in StatusResponses :
                /\ CallbackAccepts(r) /\ CallbackResponse(r)
                /\ payment'.paid
                /\ payment'.reference = cb.depositId
                /\ paymentRef' = cb.depositId]_vars

\* C13 witness: paid through a call whose query was answered completed
C13_Witness ==
  \E f \in Flows :
    /\ flows[f].autoDl > 0
    /\ payment.paid
    /\ payment.reference = flows[f].depositId
    /\ paymentRef = flows[f].depositId

\* C14: once the payment is completed, no step changes its recorded plan,
\* price, reference or paidAt.
C14_CompletedImmutable ==
  [][payment.paid =>
       /\ payment'.plan = payment.plan
       /\ payment'.price = payment.price
       /\ payment'.reference = payment.reference
       /\ payment'.paidAt = payment.paidAt]_vars

\* C15: a status query that throws or answers non-2xx changes neither payment,
\* paymentRef, step nor the download record; the attempt stays counted; the
\* message, paying and the interval are left alone unless the budget is
\* exhausted, in which case the interval callback ends the polling with the
\* timeout text.
C15_TransportErrorAbsorbed ==
  [][\A f \in Flows : Answers(f) => \A r \in ErrorResponses :
       Applied(f, r)
       => /\ payment' = payment /\ paymentRef' = paymentRef /\ step' = step
          /\ lastDl' = lastDl
          /\ flows'[f].attempts = flows[f].attempts
          /\ flows'[f].queries = flows[f].queries
          /\ IF TickResponse(f, r) /\ flows[f].attempts >= maxAttempts
             THEN payError' = MsgTimeout /\ ~paying' /\ ~flows'[f].active
             ELSE /\ payError' = payError /\ paying' = paying
                  /\ flows'[f].active = flows[f].active]_vars

\* C15 witness: a call one of whose queries failed in transport, still polling
\* with attempts left
C15_Witness ==
  \E f \in Flows :
    /\ flows[f].sawError
    /\ flows[f].active
    /\ flows[f].attempts >= 1
    /\ flows[f].attempts < maxAttempts
    /\ ~SawTerminal(f)

\* the create responses that are a failure: the fetch threw, the answer was
\* non-2xx, or it was 2xx without a depositId
CreateFailures == {c \in CreateResponses : c.threw \/ ~c.ok \/ ~c.depositId}

\* the texts a failed creation can show
CreateFailureTexts ==
  {MsgFetchThrew, MsgBodyMessage, MsgBodyError, MsgBodyDetails, MsgCreateDefault,
   MsgNoDepositId}

\* C16: a failed creation starts no poller and issues no status query for the
\* attempt, sets paying false, leaves payment as it is and shows its reason.
C16_CreateFailureAborts ==
  [][\A f \in Flows : flows[f].pc = "creating" => \A c \in CreateFailures :
       CreateResponse(f, c)
       => /\ flows'[f].pc = "unused"
          /\ ~flows'[f].active
          /\ flows'[f].queries = 0
          /\ InFlight(f)' = 0
          /\ ~paying'
          /\ payment' = payment /\ paymentRef' = paymentRef
          /\ lastDl' = lastDl
          /\ payError' = (IF c.threw THEN MsgFetchThrew
                          ELSE IF c.ok THEN MsgNoDepositId
                          ELSE IF c.message THEN MsgBodyMessage
                          ELSE IF c.error THEN MsgBodyError
                          ELSE IF c.details THEN MsgBodyDetails
                          ELSE MsgCreateDefault)]_vars

\* C16 witness: a creation has failed: its reason is shown and nothing polls
C16_Witness ==
  /\ payError \in CreateFailureTexts
  /\ ~paying
  /\ \A f \in Flows : flows[f].pc = "unused"

\* the fields of a rejection body in the order of the claim, and their texts
BodyFieldPresent(c, i) ==
  CASE i = 1 -> c.message [] i = 2 -> c.error [] i = 3 -> c.details

BodyFieldText(i) ==
  CASE i = 1 -> MsgBodyMessage [] i = 2 -> MsgBodyError [] i = 3 -> MsgBodyDetails

\* the create responses that are a rejection (non-2xx)
CreateRejections == {c \in CreateResponses : ~c.threw /\ ~c.ok}

\* C17: for a rejected create request the text shown is that of the first
\* present field among message, error, details.errorMessage, and the default
\* text only when none is present.
C17_ErrorMessageOrder ==
  [][\A f \in Flows : flows[f].pc = "creating" => \A c \in CreateRejections :
       CreateResponse(f, c)
       => /\ \A i \in 1..3 :
               (BodyFieldPresent(c, i) /\ \A j \in 1..(i - 1) : ~BodyFieldPresent(c, j))
               => payError' = BodyFieldText(i)
          /\ (\A i \in 1..3 : ~BodyFieldPresent(c, i)) <=> payError' = MsgCreateDefault]_vars

\* C17 witness: a rejection whose text came from the second field
C17_Witness ==
  /\ payError = MsgBodyError
  /\ ~paying
  /\ \A f \in Flows : ~InFlight(f) > 0

\* C18: startPayment goes on to the create request (and sets paying) only with
\* a phone and an amount; a call without them changes nothing but the message.
C18_ValidatedBeforeCreate ==
  [][\A f \in Flows :
       (flows[f].pc # "creating" /\ flows'[f].pc = "creating")
       => payment.price # NoPrice]_vars

\* C19: a failed report applied to an intent that is not completed leaves the
\* gateway's failure reason (or the default not-approved text) shown, on every
\* attempt; the timeout text is not shown for it.
C19_FailedShowsReason ==
  [][~payment.paid =>
       \A f \in Flows : Answers(f) => \A r \in FailedResponses :
         Applied(f, r)
         => (payError' = failureMessage(r) /\ payError' # MsgTimeout)]_vars

\* C20: a redirect callback whose status query throws or is answered non-2xx
\* is dropped: payment, paymentRef, payError, paying and step are unchanged, no
\* download is made and no call is touched.
C20_UnknownCallbackDiscarded ==
  [][cb.pc = "fetching" => \A r \in ErrorResponses :
       CallbackResponse(r)
       => /\ payment' = payment /\ paymentRef' = paymentRef
          /\ payError' = payError /\ paying' = paying /\ step' = step
          /\ lastDl' = lastDl /\ flows' = flows]_vars

\* C20 witness: the callback's query has failed and nothing is shown
C20_Witness ==
  /\ cb.pc = "discarded"
  /\ cb.depositId # NoDep
  /\ ~payment.paid
  /\ payError = NoError

\* C21: the callback path sets payment.paid only in the step in which the
\* status query for its depositId returns 2xx with status completed; reading
\* the marker, and every other query result, leave payment as it is.
C21_CallbackRequeries ==
  [][/\ CheckPaymentFromUrl => payment' = payment
     /\ cb.pc = "fetching" => \A r \in StatusResponses :
          CallbackResponse(r)
          => IF ~r.threw /\ r.ok /\ r.status = "completed"
             THEN payment'.paid /\ payment'.reference = cb.depositId
             ELSE payment' = payment /\ paymentRef' = paymentRef]_vars

\* C21 witness: the marker says success, the query was answered with something
\* else than completed, and the payment is not paid
C21_Witness ==
  /\ cb.pc = "done"
  /\ cb.depositId # NoDep
  /\ url.payment = "success"
  /\ ~payment.paid

\* C22: once the callback's status query has returned, with any result, the
\* depositId and payment parameters are gone from the address.
C22_UrlClearedAfterCallback ==
  (cb.pc \in {"done", "discarded"} /\ cb.depositId # NoDep)
  => (url.depositId = NoDep /\ url.payment = "none")

\* C23: without a token the callback issues no status query and changes no
\* payment state; a status query of the callback carries the session's token.
C23_CallbackNeedsToken ==
  /\ [](cb.pc = "fetching" => cb.bearer # "null")
  /\ [][/\ (CheckPaymentFromUrl /\ token = "null")
           => (cb'.pc = "done" /\ payment' = payment /\ paymentRef' = paymentRef
               /\ payError' = payError)
        /\ (cb.pc # "fetching" /\ cb'.pc = "fetching")
           => (token # "null" /\ cb'.bearer = token)]_vars

\* C23 witness: the address carried a callback, no token was there, and no
\* query was made
C23_Witness ==
  /\ cb.pc = "done"
  /\ cb.depositId = NoDep
  /\ url.depositId # NoDep
  /\ url.payment = "success"
  /\ token = "null"
  /\ ~payment.paid

\* C24: applying a completed report for an intent whose completion is already
\* recorded (a second poll response for the same depositId) leaves paid,
\* reference and paidAt exactly as the first application left them.
C24_CompletedIdempotent ==
  [][\A f \in Flows :
       (/\ payment.paid
        /\ payment.reference = flows[f].depositId
        /\ Answers(f))
       => /\ payment'.paid = payment.paid
          /\ payment'.reference = payment.reference
          /\ payment'.paidAt = payment.paidAt]_vars

\* C25: the redirect callback never exports: neither the effect nor the return
\* of its status query calls downloadPdf, whatever the answer; and on a page
\* that has made no startPayment call (a reloaded page) every export that has
\* run was started by the user while the payment was paid.
C25_CallbackNeverExports ==
  /\ []((\A f \in Flows : flows[f].pc = "unused")
        => (lastDl.by = "none" \/ (lastDl.by = "user" /\ lastDl.paid)))
  /\ [][(cb'.pc # cb.pc) => lastDl' = lastDl]_vars

\* the callback has set paid on a page without any payment call, and the user
\* has then exported
C25_Witness ==
  /\ cb.pc = "done"
  /\ payment.paid
  /\ payment.reference = cb.depositId
  /\ \A f \in Flows : flows[f].pc = "unused"
  /\ lastDl.by = "user"

\* C26: after the first intent has ended failed (a failed report applied, its
\* interval cleared, paying false) and the user has submitted again, the return
\* of a status query of the first intent (reporting failed once more) changes
\* nothing of what the page shows for the fresh intent: paying, payError,
\* payment, paymentRef and step.
C26_RetryUnaffected ==
  [][(/\ flows[1].sawFailed
      /\ ~flows[1].active
      /\ flows[2].pc \in {"creating", "live"}
      /\ Answers(1))
     => \A r \in FailedResponses :
          Applied(1, r)
          => /\ paying' = paying
             /\ payError' = payError
             /\ payment' = payment
             /\ paymentRef' = paymentRef
             /\ step' = step]_vars

\* C27: a status response whose canonical status is pending or processing is
\* not taken as completed or failed, whatever its raw pawapayStatus says: it
\* changes neither payment, paymentRef nor the download record and shows no
\* failure text.
C27_ProviderStatusNotDecisive ==
  [][\A f \in Flows : Answers(f) => \A r \in NonTerminalResponses :
       Applied(f, r)
       => /\ payment' = payment
          /\ paymentRef' = paymentRef
          /\ lastDl' = lastDl
          /\ (payError' \in FailureTexts => payError' = payError)]_vars

\* C28: when the reports of an intent were non-terminal and a query within the
\* budget then returned completed, the call ends with the payment paid under
\* that depositId, the interval cleared, paying false and the automatic
\* download made exactly once.
C28_LateCompletionEndsOnce ==
  \A f \in Flows :
    (Finished(f) /\ payment.paid)
    => /\ payment.reference = flows[f].depositId
       /\ paymentRef = flows[f].depositId
       /\ ~paying
       /\ flows[f].autoDl = 1

\* C29: the interval of a call is cleared after at most 40 ticks: no tick
\* raises attempts above 40, and a call whose interval is cleared and whose
\* queries have all returned has left paying false.
C29_PollerEndsWithinBudget ==
  /\ [](\A f \in Flows : Finished(f) => ~paying)
  /\ [][\A f \in Flows :
          flows'[f].attempts > flows[f].attempts
          => flows'[f].attempts <= maxAttempts]_vars

\* C30: from the submit of a payment until its intent is completed or failed
\* the payment modal is open: while a call is creating its intent, or polls an
\* intent that has been reported neither completed nor failed, paymentOpen
\* holds.
C30_ModalOpenWhilePending ==
  \A f \in Flows :
    (\/ flows[f].pc = "creating"
     \/ /\ flows[f].pc = "live"
        /\ flows[f].active
        /\ ~flows[f].sawFailed
        /\ ~payment.paid)
    => paymentOpen

\* startPayment of call f has not returned to the handlePrimary that awaits it
\* (auth.ts:218, Home.tsx:238, 328), and the modal instance that made the call
\* is still mounted
OnPayInFlight(f) ==
  /\ flows[f].inModal
  /\ \/ flows[f].pc = "creating"
     \/ flows[f].pc = "live" /\ flows[f].init \in {"fetch", "download"}

\* C31: at most one onPay call made by the payment modal is in flight at any
\* time: while one is awaited, activating the primary button starts no other.
C31_OneOnPayInFlight ==
  Cardinality({f \in Flows : OnPayInFlight(f)}) <= 1

\* C32: a startPayment call without a user, or with a card intent, sends no
\* request and does not set paying; payment is unchanged and the message for
\* the case is shown.
C32_RejectedWithoutRequest ==
  [][\A method \in {"mobile", "card"}, hasPhone \in BOOLEAN :
       (/\ user = "null" \/ method = "card"
        /\ \/ StartPaymentCall(method, hasPhone)
           \/ HandlePrimaryPay(1, method, TRUE) /\ hasPhone)
       => /\ paying' = paying
          /\ flows' = flows
          /\ payment' = payment
          /\ paymentRef' = paymentRef
          /\ payError' = IF user = "null" THEN MsgAuthRequired
                         ELSE MsgCardDisabled]_vars

\* a card intent was turned away for a signed-in user
C32_Witness ==
  /\ payError = MsgCardDisabled
  /\ user # "null"
  /\ ~paying
  /\ \A f \in Flows : flows[f].pc = "unused"

\* the years the period texts use, and the text of a month of one of them
SampleYears == {2019, 2020, 2021}
FormatYM(y, m) ==
  <<DigitChars[(y \div 1000) + 1], DigitChars[((y \div 100) % 10) + 1],
    DigitChars[((y \div 10) % 10) + 1], DigitChars[(y % 10) + 1], "-",
    DigitChars[(m \div 10) + 1], DigitChars[(m % 10) + 1]>>

\* the text is YYYY-MM with a month 1..12 (white space around it aside)
WellFormedYM(v) ==
  v.defined /\ \E y \in SampleYears, m \in 1..12 : Trim(v.chars) = FormatYM(y, m)

\* month e lies strictly before month s
EarlierYM(e, s) ==
  \E ye \in SampleYears, ys \in SampleYears, me \in 1..12, ms \in 1..12 :
    /\ Trim(e.chars) = FormatYM(ye, me)
    /\ Trim(s.chars) = FormatYM(ys, ms)
    /\ ye < ys \/ (ye = ys /\ me < ms)

\* the text says present, in any case and with white space around it
PresentSpellings ==
  {<<"p", "r", "e", "s", "e", "n", "t">>, <<"P", "r", "e", "s", "e", "n", "t">>,
   <<"P", "R", "E", "S", "E", "N", "T">>}
SaysPresent(v) == v.defined /\ Trim(v.chars) \in PresentSpellings

\* C33: export is blocked exactly when the end of the period is not 'present',
\* start and end are both well-formed YYYY-MM texts and the end lies strictly
\* before the start; malformed, missing, equal or ordered values do not block.
C33_BlockedIffReversed ==
  exportBlocked
  = (/\ ~SaysPresent(period.end)
     /\ WellFormedYM(period.start)
     /\ WellFormedYM(period.end)
     /\ EarlierYM(period.end, period.start))

\* a period from 2020-05 to 2019-12 blocks the export
C33_Witness ==
  /\ exportBlocked
  /\ period.start = Str(<<"2", "0", "2", "0", "-", "0", "5">>)
  /\ period.end = Str(<<"2", "0", "1", "9", "-", "1", "2">>)

\* C34: while paying is false no interval started by startPayment is active,
\* however many calls have been made and however they ended.
C34_NotPayingNoPoller ==
  ~paying => \A f \in Flows : ~(flows[f].pc = "live" /\ flows[f].active)

\* C35: no downloadPdf call, automatic or from a button, is made while the
\* export is blocked by date errors.
C35_NoDownloadWhileBlocked == lastDl.by # "none" => ~lastDl.blocked

\* C36: in every reachable state the recorded price is priceOf of the recorded
\* plan (1 for student, 2 for pro, 3 for advanced), after the loading of a
\* stored draft or profile, choosePlan and the status updates.
C36_PriceOfPlan ==
  /\ payment.price = priceOf(payment.plan)
  /\ payment.plan = "student" => payment.price = 1
  /\ payment.plan = "pro" => payment.price = 2
  /\ payment.plan = "advanced" => payment.price = 3

\* a plan chosen on the cards and then paid
C36_Witness ==
  /\ payment.plan = "advanced"
  /\ payment.price = 3
  /\ payment.paid
  /\ \E f \in Flows : flows[f].pc = "live" /\ payment.reference = flows[f].depositId

\* C37: in the auth store a user is never held without a token, whatever the
\* order in which hydrate, login, signup, setSession and logout run and their
\* requests return.
C37_UserImpliesToken == user # "null" => token # "null"

\* C38: the users file never holds two users whose emails are equal without
\* regard to case, and the user of every signup answered 200 is in the file,
\* however the signup requests interleave.
C38_DirectoryConsistent ==
  /\ \A i \in 1..Len(server.file), j \in 1..Len(server.file) :
       (i # j) => LowerEmail(server.file[i].email) # LowerEmail(server.file[j].email)
  /\ \A r \in Reqs :
       server.reqs[r].pc = "ok"
       => \E i \in 1..Len(server.file) : server.file[i].id = r

====
